---- MODULE Spec2Model ----
(***************************************************************************)
(* Script Runner POC: the execution driver (ScriptRunner.run), the         *)
(* execution engines found in the repository (VMRunnerIvm in its three     *)
(* revisions and the vm-module VMRunner), the capability bridge and the    *)
(* script loader, as a state machine of concurrent runs on one shared      *)
(* runner instance.                                                        *)
(*                                                                         *)
(* index.js requires './lib/vm-runner' and instantiates whatever class     *)
(* that module exports; the repository holds four candidate engines, so    *)
(* the engine in force is a choice made once at construction (Init).       *)
(*   ivmCfg  - VMRunnerIvm with options          (unnamed/part_004)        *)
(*   ivmSync - VMRunnerIvm, injectHelpersSync    (lib/vm-runner-ivm.js)    *)
(*   ivmOld  - VMRunnerIvm, first revision       (unnamed/part_005)        *)
(*   vm      - VMRunner on Node's vm module      (lib/vm-runner-ivm.js)    *)
(* The ivmCfg engine destructures { httpGet, ..., logger } from            *)
(* require('./helpers'); lib/helpers.js exports the ScriptHelpers class,   *)
(* so with that module the destructured names are undefined.  The other    *)
(* possible shape (a module exporting the functions) is the second value   *)
(* of helpersExport.                                                       *)
(***************************************************************************)
EXTENDS Integers, Sequences, FiniteSets, TLC

\* ---------------------------------------------------------------- bounds
\* number of guest operations (credential mutations, logger calls, reads and
\* writes of globals, capability calls) performed by all runs together
MaxGuestOps == 2

\* ------------------------------------------------------------ universes
\* two runs in flight on one shared runner instance
Runs == {1, 2}

Engines == {"ivmCfg", "ivmSync", "ivmOld", "vm"}
IvmEngines == {"ivmCfg", "ivmSync", "ivmOld"}
HelperExports == {"class", "functions"}

\* a credentials value: null/undefined, or a flat object {x: 21}; a field
\* holds a JSON number, the JavaScript value undefined, or is absent
NoCreds == [isObj |-> FALSE, x |-> "absent"]
Creds == {NoCreds, [isObj |-> TRUE, x |-> "21"]}

\* script sources by what the resolver does with them
Sources == {"file", "missingFile", "inline", "s3", "unknown"}

\* what a guest script does at top level: define run, define none, throw,
\* or never terminate
TopLevels == {"definesRun", "noRun", "throws", "loops"}

\* what a guest's run returns: a JSON-serializable payload (reporting success
\* or failure in its business fields), or a value that holds a function
ReturnValues == {"successPayload", "failurePayload", "function"}

\* the five capability names of the bridge
FiveNames == {"httpGet", "httpPost", "base64Encode", "sleep", "logger"}

\* logger methods and the console function each one writes through
Levels == {"info", "error", "warn", "debug"}
Streams == {"log", "error", "warn"}

\* objects a guest can write a field of: its logger and its global object
Targets == {"logger", "global"}

\* identities of contexts and of the objects living in them; 0 is the one
\* logger object of the ScriptHelpers instance held by the runner
ObjIds == 0 .. Cardinality(Runs)

VARIABLES
  engine,        \* which engine class index.js got from require('./lib/vm-runner')
  helpersExport, \* shape of the value of require('./helpers')
  phase,         \* phase[r]: position of run r in runScript
  topLevel,      \* topLevel[r]: what the compiled script left at top level
  callerCreds,   \* callerCreds[r]: the caller's credentials object (host heap)
  creds0,        \* creds0[r]: value of the caller's object when run was called
  guestCreds,    \* guestCreds[r]: the guest's own copy, when it got a copy
  credsAliased,  \* credsAliased[r]: guest's argument IS the caller's object
  executionId,   \* executionId[r]: correlation id, 0 when none was generated
  ctx,           \* ctx[r]: isolation context of the run, 0 when none
  nextCtx,       \* allocator of contexts / isolates / sandboxes
  liveIsolates,  \* isolates created and not disposed
  hostBindings,  \* hostBindings[r]: bindings the host put in the guest's globals
  raised,        \* raised[r]: the error thrown inside runScript, "none" if none
  guestReturn,   \* guestReturn[r]: what the guest's run returned, "none" if nothing
  invokeAttempted, \* invokeAttempted[r]: the entry point invocation was attempted
  timer,         \* timer[r]: time since invocation against executionTimeout
  outcome,       \* outcome[r]: what ScriptRunner.run gave its caller
  guestOps,      \* operations the guests have performed so far
  hostLog,       \* lines written to the host console by guest logger calls
  consolePatch,  \* consolePatch[s]: wrappers currently installed on console.<s>
  mark,          \* mark[t][o]: the run that last wrote a field of object o
  observed,      \* observed[r]: writers whose writes the guest of r has read
  capSettle,     \* capSettle[r]: how the last http capability call settled
  reachedOther,  \* reachedOther[r]: the guest resolved a host binding outside the five
  ldSource,      \* ldSource[c]: the argument of call c of ScriptLoader.loadScript
  ldPhase,       \* ldPhase[c]: position of call c ("idle", "reading", "settled")
  ldChunks,      \* ldChunks[c]: the chunks array of loadFromFile
  ldResult,      \* ldResult[c]: how the promise returned by loadScript settled
  ldSettles,     \* ldSettles[c]: calls of resolve / reject / throw that settled it
  caller,        \* what the embedding program constructs ("none" before it does)
  options,       \* the configuration object the caller wrote
  runnerConfig,  \* executionTimeout / memoryLimit fields of the engine instance
  isolateMemory, \* memoryLimit the isolate of a run was created with
  applyTimeout,  \* timeout the entry point invocation of a run was given
  attempts,      \* attempts[r]: how often each stage of run r was entered, how many
                 \* capability calls its guest made and host requests they caused
  capLog,        \* lines written to the host console by the http capabilities
  processDown,   \* the Node process has exited on an unhandled rejection
  argv,          \* process.argv.slice(2) of a CLI process
  request,       \* body of a POST /scripts/execute request
  frontPhase,    \* position of the CLI process / of the request handler
  runCall,       \* the arguments the front end gave to ScriptRunner.run
  runResult,     \* how that run call settled
  exitCode,      \* exit status of the CLI process, NotGiven while it has not exited
  response,      \* the HTTP response sent
  issued,        \* issued[r]: operations the guest of run r has issued so far
  guestAt,       \* guestAt[r]: where the guest of run r stands in its run function
  hostQueue,     \* calls posted to the host's loop by isolates, oldest first
  trace,         \* host-side effects in the order they happened
  fetchScript,   \* which script's fetchAllDevices is running
  fetchPhase,    \* position of fetchAllDevices
  page,          \* its variable page (MaxPages stands for MaxPages or more)
  allDevices,    \* length of its array allDevices (MaxDevices: that or more)
  fetchResponse  \* how its httpGet call of the current page settled

runVars == <<phase, topLevel, executionId, ctx, nextCtx, liveIsolates,
             hostBindings, raised, guestReturn, invokeAttempted, timer, outcome>>
credVars == <<callerCreds, creds0, guestCreds, credsAliased>>
cfgVars == <<engine, helpersExport>>
logVars == <<hostLog, consolePatch>>
guestVars == <<mark, observed, capSettle, reachedOther>>
loaderVars == <<ldSource, ldPhase, ldChunks, ldResult, ldSettles>>
optionVars == <<caller, options, runnerConfig, isolateMemory, applyTimeout>>
auditVars == <<attempts, capLog, processDown>>
frontVars == <<argv, request, frontPhase, runCall, runResult, exitCode, response>>
orderVars == <<issued, guestAt, hostQueue, trace>>
fetchVars == <<fetchScript, fetchPhase, page, allDevices, fetchResponse>>
sideVars == <<orderVars, fetchVars>>

vars == <<cfgVars, runVars, credVars, guestOps, logVars, guestVars, loaderVars,
          optionVars, auditVars, frontVars, sideVars>>

Pending == [kind |-> "pending", error |-> "none", value |-> "none"]
Rejected(e) == [kind |-> "rejected", error |-> e, value |-> "none"]
Returned(v) == [kind |-> "returned", error |-> "none", value |-> v]

\* JSON.parse(JSON.stringify(c)): a field whose value is undefined is dropped
JsonRoundTrip(c) == [c EXCEPT !.x = IF c.x = "undefined" THEN "absent" ELSE c.x]

\* a driver whose catch block reports the failure as a returned value
DriverCatchReturnsFailure(e) == Returned("failureRecord")

\* ScriptRunner.run: try { return await runScript } catch { log; throw error }
DriverCatch(e) == Rejected(e)

\* ScriptRunner.run: return result
DriverReturn(v) == Returned(v)

\* the correlation id generated at the top of runScript; the first ivm
\* revision and the vm engine generate none
NewExecutionId(r) == IF engine \in {"ivmCfg", "ivmSync"} THEN r ELSE 0

\* an engine that keeps the context it created last and hands it out again
NewContextReused == IF nextCtx = 1 THEN nextCtx ELSE nextCtx - 1

\* new ivm.Isolate(...) / createContextSync() / createSandbox(): a fresh
\* object on every call
NewContext == nextCtx

Binding(n, k) == [name |-> n, kind |-> k]

\* jail.setSync('global', jail.derefInto()) and the jail.setSync('_x', new
\* ivm.Reference(hostFn)) calls made before the first await of injectHelpers
RawBindings ==
  CASE engine = "ivmCfg" ->
         {Binding("global", "selfRef")} \cup
         {Binding(n, "reference") : n \in {"_httpGet", "_httpPost", "_base64Encode",
             "_sleep", "_logInfo", "_logError", "_logWarn", "_logDebug"}}
    [] engine = "ivmSync" ->
         {Binding("global", "selfRef")} \cup
         {Binding(n, "reference") : n \in {"_log", "_httpGet", "_httpPost",
             "_base64Encode", "_sleep"}}
    [] engine = "ivmOld" -> {}
    [] engine = "vm" -> {}

\* the wrappers defined by context.eval / evalSync inside the isolate
\* (guest-side functions and a guest-side logger object), or the sandbox
\* object literal of createSandbox (live host functions, the shared host
\* logger object, and the names masked with undefined)
InstalledBindings ==
  CASE engine \in {"ivmCfg", "ivmSync"} ->
         RawBindings \cup {Binding(n, "guestWrapper") : n \in FiveNames}
    [] engine = "ivmOld" ->
         {Binding("global", "selfRef"), Binding("httpGet", "reference"),
          Binding("httpPost", "reference")}
    [] engine = "vm" ->
         {Binding(n, "hostFunction") : n \in FiveNames \ {"logger"}} \cup
         {Binding("logger", "hostObject")} \cup
         {Binding(n, "undefined") : n \in {"require", "process", "global", "Buffer",
             "console", "setTimeout", "setInterval", "clearTimeout", "clearInterval"}}

\* injectHelpers of the first ivm revision copies the logger object into the
\* isolate with { copy: true }; an object holding functions cannot be cloned
InstallSucceeds == engine # "ivmOld"

\* ScriptLoader.loadScript by kind of source
LoadScript(s) ==
  CASE s = "file" -> [ok |-> TRUE, error |-> "none"]
    [] s = "inline" -> [ok |-> TRUE, error |-> "none"]
    [] s = "missingFile" -> [ok |-> FALSE, error |-> "SourceReadFailure"]
    [] s = "s3" -> [ok |-> FALSE, error |-> "NotImplementedSource"]
    [] s = "unknown" -> [ok |-> FALSE, error |-> "UnsupportedSourceKind"]

\* an entry point test that accepts whatever the lookup returned
RunExistsReferenceTest(t) == TRUE

\* the test made before the entry point is invoked: typeof globalThis.run ===
\* "function" (evalSync), typeof context.run (vm); the first ivm revision
\* tests the Reference returned by jail.get, which always has an apply method
RunExists(t) == IF engine = "ivmOld" THEN TRUE ELSE t = "definesRun"

\* the argument handed to the guest's run: the vm engine passes the caller's
\* object itself, part_004 / vm-runner-ivm.js pass a JSON round trip of it
\* (copied once more by arguments: { copy: true }), part_005 the ivm copy only
PassesCallerObject == engine = "vm"

CredentialsCopy(c) == IF engine = "ivmOld" THEN c ELSE JsonRoundTrip(c)

JsonSerializable(v) == v # "function"

\* the value of runRef.apply(..., { result: { copy: true, promise: true } }):
\* a structured clone of what the guest's promise resolved to, which fails on
\* a function; the vm engine returns the guest's value itself
ResultTransfer(v) ==
  IF engine = "vm" \/ JsonSerializable(v)
    THEN [ok |-> TRUE, value |-> v]
    ELSE [ok |-> FALSE, value |-> "none"]

NoSettle == [how |-> "none", hostFailed |-> FALSE, carries |-> {}]

\* a capability call the guest made without awaiting it, not settled yet
InFlight == [how |-> "inFlight", hostFailed |-> FALSE, carries |-> {}]

\* what the host-side capability throws when the HTTP client fails:
\* helpers.js rethrows the client's error object; createHttpGetReference /
\* createHttpPostReference throw a new Error built from its message
ThrownByHost ==
  IF engine = "ivmSync" THEN {"message", "stack"}
  ELSE {"message", "stack", "nativeType", "hostObject"}

\* what of a thrown host error reaches the guest: an ivm.Reference call
\* rebuilds an Error in the isolate from the message and the trace text; the
\* vm engine calls the host function in the guest's own heap
AcrossBoundary(e) == IF engine = "vm" THEN e ELSE e \cap {"message", "stack"}

\* how the promise of httpGet / httpPost settles in the guest
HttpSettle(ok) ==
  IF ok THEN [how |-> "resolved", hostFailed |-> FALSE, carries |-> {"data"}]
  ELSE IF engine = "ivmOld"
         THEN [how |-> "resolved", hostFailed |-> TRUE, carries |-> {"errorField"}]
         ELSE [how |-> "rejected", hostFailed |-> TRUE,
               carries |-> AcrossBoundary(ThrownByHost)]

\* const { httpGet, ... } = require('./helpers') when the module exports the
\* ScriptHelpers class: every destructured name is undefined
HelpersUndefined == engine = "ivmCfg" /\ helpersExport = "class"

\* applying a Reference that holds undefined fails inside the bridge
BridgeTypeError == [how |-> "rejected", hostFailed |-> FALSE, carries |-> {"message"}]

StreamOf(level) ==
  CASE level \in {"info", "debug"} -> "log"
    [] level = "error" -> "error"
    [] level = "warn" -> "warn"

Range(q) == {q[i] : i \in DOMAIN q}

\* console.<s> = (...a) => original(`[sandbox-${executionId}]`, ...a)
PatchConsole(stack, id) == <<id>> \o stack

\* a logger callback that leaves its wrapper installed
RestoreConsoleSkipped(stack) == stack

\* console.<s> = original
RestoreConsole(stack) == Tail(stack)

\* the object a guest reaches under the name logger, and its global object
ObjectOf(r, t) == IF t = "logger" /\ engine = "vm" THEN 0 ELSE ctx[r]

NoAttempts == [resolve |-> 0, compile |-> 0, invoke |-> 0, capCalls |-> 0,
               hostRequests |-> 0]

\* no runScript call has been made yet
RunsIdle ==
  /\ phase = [r \in Runs |-> "idle"]
  /\ topLevel = [r \in Runs |-> "none"]
  /\ callerCreds = [r \in Runs |-> NoCreds]
  /\ creds0 = [r \in Runs |-> NoCreds]
  /\ guestCreds = [r \in Runs |-> NoCreds]
  /\ credsAliased = [r \in Runs |-> FALSE]
  /\ executionId = [r \in Runs |-> 0]
  /\ ctx = [r \in Runs |-> 0]
  /\ nextCtx = 1
  /\ liveIsolates = {}
  /\ hostBindings = [r \in Runs |-> {}]
  /\ raised = [r \in Runs |-> "none"]
  /\ guestReturn = [r \in Runs |-> "none"]
  /\ invokeAttempted = [r \in Runs |-> FALSE]
  /\ timer = [r \in Runs |-> "off"]
  /\ outcome = [r \in Runs |-> Pending]
  /\ guestOps = 0
  /\ hostLog = {}
  /\ consolePatch = [s \in Streams |-> << >>]
  /\ mark = [t \in Targets |-> [o \in ObjIds |-> 0]]
  /\ observed = [r \in Runs |-> {}]
  /\ capSettle = [r \in Runs |-> NoSettle]
  /\ reachedOther = [r \in Runs |-> FALSE]
  /\ attempts = [r \in Runs |-> NoAttempts]
  /\ capLog = {}
  /\ processDown = FALSE

\* ------------------------------------------------------ the script loader
\* two loadScript calls in flight on one ScriptLoader
Calls == {1, 2}

\* the value undefined in a field that holds a string otherwise
Undefined == "(undefined)"

\* script text and file chunks are sequences of characters
Str(s) == [t |-> "string", s |-> s]
NotAString(t) == [t |-> t, s |-> << >>]

\* values of the code property of an inline source: a text, the empty
\* string, undefined, the number 5, a String object
InlineCodes ==
  {Str(<<"f", "n">>), Str(<<" ", "f">>), Str(<< >>), NotAString("undefined"),
   NotAString("number"), NotAString("object")}

\* files by what createReadStream does on them
Paths == {"a.js", "empty.js", "e0.js", "e1.js"}

\* the events a read stream on p emits: its data chunks in order, then end,
\* or an error after the chunks that could be read
Disk(p) ==
  CASE p = "a.js" ->
         [chunks |-> << <<"f">>, <<"n", "x">> >>, fails |-> FALSE, cause |-> "none"]
    [] p = "empty.js" ->
         [chunks |-> << >>, fails |-> FALSE, cause |-> "none"]
    [] p = "e0.js" ->
         [chunks |-> << >>, fails |-> TRUE, cause |-> "ENOENT"]
    [] p = "e1.js" ->
         [chunks |-> << <<"f">> >>, fails |-> TRUE, cause |-> "EIO"]

\* a value given to loadScript
Src(shape, type, path, code, bucket, key, scriptId) ==
  [shape |-> shape, type |-> type, path |-> path, code |-> code,
   bucket |-> bucket, key |-> key, scriptId |-> scriptId]

BareString(p) ==
  Src("string", Undefined, p, NotAString("undefined"), Undefined, Undefined, Undefined)
Tagged(type) ==
  Src("object", type, Undefined, NotAString("undefined"), Undefined, Undefined, Undefined)
FileSource(p) == [Tagged("file") EXCEPT !.path = p]
InlineSource(c) == [Tagged("inline") EXCEPT !.code = c]
S3Source(b, k) == [Tagged("s3") EXCEPT !.bucket = b, !.key = k]
DatabaseSource(id) == [Tagged("database") EXCEPT !.scriptId = id]
NonObject(shape) ==
  Src(shape, Undefined, Undefined, NotAString("undefined"), Undefined, Undefined, Undefined)

\* property names every object inherits from Object.prototype
InheritedNames == {"constructor", "toString", "hasOwnProperty", "__proto__"}

\* type tags nobody defined
UnknownTags == {"url", "ftp"}

SourceValues ==
  {BareString(p) : p \in Paths} \cup
  {FileSource(p) : p \in Paths} \cup
  {InlineSource(c) : c \in InlineCodes} \cup
  {S3Source(b, k) : b \in {"b", "", Undefined}, k \in {"k", ""}} \cup
  {DatabaseSource("id1")} \cup
  {Tagged(t) : t \in UnknownTags \cup InheritedNames \cup {"", Undefined}} \cup
  {NonObject(s) : s \in {"null", "undefined", "number"}}

LdPending == [kind |-> "pending", returns |-> "none", content |-> << >>,
              error |-> "none", names |-> {}]

\* the promise resolves: with a text, or with whatever else the callee returned
LdResolved(returns, content) ==
  [kind |-> "resolved", returns |-> returns, content |-> content,
   error |-> "none", names |-> {}]

\* the promise rejects with an Error; names are the parts of the source (and
\* of the underlying error) that its message spells out
LdRejected(error, names) ==
  [kind |-> "rejected", returns |-> "none", content |-> << >>,
   error |-> error, names |-> names]

\* JavaScript truthiness of a string-or-undefined field and of a code value
Truthy(v) == v \notin {"", Undefined}
TruthyCode(c) == IF c.t = "string" THEN c.s # << >> ELSE c.t # "undefined"

\* this.sources[type]: the three own properties, then the prototype chain
SourcesLookup(type) ==
  CASE type = "file" -> "loadFromFile"
    [] type = "inline" -> "loadFromInline"
    [] type = "s3" -> "loadFromS3"
    [] type = "constructor" -> "Object"
    [] type = "toString" -> "Object.prototype.toString"
    [] type = "hasOwnProperty" -> "Object.prototype.hasOwnProperty"
    [] type = "__proto__" -> "Object.prototype"
    [] OTHER -> Undefined

\* an inline loader that accepts every string, the empty one too
InlineCodeIsStringOnly(code) == code.t = "string"

\* loadFromInline: !(!code || typeof code !== 'string')
InlineCodeAccepted(code) == TruthyCode(code) /\ code.t = "string"

\* an inline loader that strips leading white space from the code
LoadFromInlineTrimmed(source) ==
  IF ~InlineCodeAccepted(source.code)
    THEN LdRejected("InvalidSource", {})
    ELSE LdResolved("text", IF Head(source.code.s) = " "
                              THEN Tail(source.code.s) ELSE source.code.s)

\* loadFromInline(source)
LoadFromInline(source) ==
  IF ~InlineCodeAccepted(source.code)
    THEN LdRejected("InvalidSource", {})
    ELSE LdResolved("text", source.code.s)

\* loadFromS3(source): 'S3 source requires bucket and key', else
\* `S3 reading not implemented yet. Would read from s3://${bucket}/${key}`
LoadFromS3(source) ==
  IF ~Truthy(source.bucket) \/ ~Truthy(source.key)
    THEN LdRejected("S3RequiresBucketAndKey", {})
    ELSE LdRejected("NotImplementedSource", {source.bucket, source.key})

\* loader(source) for a callee found on Object.prototype, called with no this
CallInherited(callee, source) ==
  CASE callee = "Object" -> LdResolved("sourceObject", << >>)
    [] callee = "Object.prototype.toString" ->
         LdResolved("text", <<"[", "o", "b", "j", "e", "c", "t", " ",
                              "U", "n", "d", "e", "f", "i", "n", "e", "d", "]">>)
    [] callee = "Object.prototype.hasOwnProperty" -> LdRejected("TypeError", {})
    [] callee = "Object.prototype" -> LdRejected("TypeError", {})

\* which function loadScript ends up calling, and with which argument
Dispatch(source) ==
  IF source.shape = "string"
    THEN [callee |-> "loadFromFile", arg |-> "path"]
    ELSE IF source.shape = "null"
      THEN [callee |-> "throwTypeError", arg |-> "none"]
      ELSE IF source.shape = "object" /\ Truthy(source.type)
        THEN IF SourcesLookup(source.type) = Undefined
               THEN [callee |-> "throwUnsupported", arg |-> "none"]
               ELSE [callee |-> SourcesLookup(source.type), arg |-> "source"]
        ELSE [callee |-> "throwInvalidFormat", arg |-> "none"]

\* how loadScript settles when it does not open a stream
LoadImmediate(source) ==
  LET d == Dispatch(source)
  IN CASE d.callee = "throwTypeError" -> LdRejected("TypeError", {})
       [] d.callee = "throwUnsupported" ->
            LdRejected("UnsupportedSourceKind", {source.type})
       [] d.callee = "throwInvalidFormat" -> LdRejected("InvalidSourceFormat", {})
       [] d.callee = "loadFromInline" -> LoadFromInline(source)
       [] d.callee = "loadFromS3" -> LoadFromS3(source)
       [] d.callee = "loadFromFile" /\ d.arg = "source" ->
            LdRejected("TypeError", {})
       [] OTHER -> CallInherited(d.callee, source)

\* fs.createReadStream(filePath) gives a stream only for a path string; given
\* the source object it throws inside the promise executor
OpensStream(source) ==
  Dispatch(source).callee = "loadFromFile" /\ Dispatch(source).arg = "path"

RECURSIVE Join(_)
\* chunks.join('')
Join(chunks) == IF chunks = << >> THEN << >> ELSE Head(chunks) \o Join(Tail(chunks))

\* an error handler that hands back what was read so far
ReadFailureKeepsChunks(path, cause, chunks) ==
  [LdRejected("SourceReadFailure", {path, cause}) EXCEPT
     !.returns = "text", !.content = Join(chunks)]

\* reject(new Error(`Failed to read file ${filePath}: ${error.message}`))
ReadFailure(path, cause, chunks) == LdRejected("SourceReadFailure", {path, cause})

LoaderIdle ==
  /\ ldSource = [c \in Calls |-> NonObject("undefined")]
  /\ ldPhase = [c \in Calls |-> "idle"]
  /\ ldChunks = [c \in Calls |-> << >>]
  /\ ldResult = [c \in Calls |-> LdPending]
  /\ ldSettles = [c \in Calls |-> 0]

\* ------------------------------------------------------ run configuration
\* an option the caller did not give (undefined), and a run without the thing
\* the option would bound
NotGiven == -1

DefaultExecutionTimeout == 300000
DefaultMemoryLimit == 128

\* values a caller writes for executionTimeout (ms) and memoryLimit (MB)
TimeoutOptions == {NotGiven, 1000, DefaultExecutionTimeout}
MemoryOptions == {NotGiven, 64, DefaultMemoryLimit}

Options == [executionTimeout : TimeoutOptions, memoryLimit : MemoryOptions]
NoOptions == [executionTimeout |-> NotGiven, memoryLimit |-> NotGiven]

\* what the embedding program instantiates: new ScriptRunner(options), as
\* the README shows, or the engine class itself
Callers == {"ScriptRunner", "engine"}

\* the argument the engine's constructor receives: ScriptRunner's constructor
\* takes no parameter and calls new VMRunner()
PassedToEngine(who, opts) == IF who = "ScriptRunner" THEN NoOptions ELSE opts

\* options.x || default
OrDefault(v, default) == IF v \in {NotGiven, 0} THEN default ELSE v

\* the constructor of the engine: only part_004 declares an options parameter
\* and keeps executionTimeout / memoryLimit on the instance
EngineConfig(opts) ==
  IF engine = "ivmCfg"
    THEN [executionTimeout |-> OrDefault(opts.executionTimeout, DefaultExecutionTimeout),
          memoryLimit |-> OrDefault(opts.memoryLimit, DefaultMemoryLimit)]
    ELSE NoOptions

\* new ivm.Isolate({ memoryLimit: ... }); the vm engine creates no isolate
IsolateMemoryLimit ==
  CASE engine = "ivmCfg" -> runnerConfig.memoryLimit
    [] engine = "ivmSync" -> 128
    [] engine = "ivmOld" -> 64
    [] engine = "vm" -> NotGiven

\* runRef.apply(undefined, [...], { timeout: ... }); the vm engine calls
\* context.run(credentials) with no bound
ApplyTimeout ==
  CASE engine = "ivmCfg" -> runnerConfig.executionTimeout
    [] engine = "ivmSync" -> 30000
    [] engine = "ivmOld" -> 5000
    [] engine = "vm" -> NotGiven

OptionsIdle ==
  /\ caller = "none"
  /\ options = NoOptions
  /\ runnerConfig = NoOptions
  /\ isolateMemory = << >>
  /\ applyTimeout = << >>

\* ------------------------------------------- the CLI and the HTTP endpoint
\* command-line words: a script path, the JSON text of a tagged s3 source,
\* the JSON text of a credentials object, and plain words
ScriptPathWord == "./scripts/jamf-device-fetcher.js"
S3JsonWord == "{\"type\":\"s3\",\"bucket\":\"scripts\",\"key\":\"jamf-fetcher.js\"}"
CredsJsonWord == "{\"subdomain\":\"company\",\"username\":\"admin\",\"password\":\"mypass\"}"
PlainWords == {"company", "admin", "mypass"}
Words == {ScriptPathWord, S3JsonWord, CredsJsonWord} \cup PlainWords

\* longest command line tried
MaxArgs == 4

\* JavaScript values handed to ScriptRunner.run
JsString(w) == [kind |-> "string", text |-> w]
JsObject(fields) == [kind |-> "object", fields |-> fields]
JsUndefined == [kind |-> "undefined"]

S3SourceObject == JsObject([type |-> "s3", bucket |-> "scripts", key |-> "jamf-fetcher.js"])
CredsObject(s, u, p) == JsObject([subdomain |-> s, username |-> u, password |-> p])

\* JSON.parse(word): the object the text denotes; a SyntaxError for a word
\* that is not JSON
JsonParse(w) ==
  CASE w = S3JsonWord -> [ok |-> TRUE, value |-> S3SourceObject]
    [] w = CredsJsonWord -> [ok |-> TRUE, value |-> CredsObject("company", "admin", "mypass")]
    [] OTHER -> [ok |-> FALSE, value |-> JsUndefined]

\* const [scriptSourceArg, credentialsArg] = args;
\* const scriptSource = scriptSourceArg || './scripts/jamf-device-fetcher.js'
CliSource(args) == JsString(IF args[1] = "" THEN ScriptPathWord ELSE args[1])

\* the credentials the CLI builds: JSON.parse(credentialsArg), else with four
\* or more arguments { subdomain, username, password } = args.slice(1)
CliCredentials(args) ==
  IF JsonParse(args[2]).ok
    THEN [ok |-> TRUE, value |-> JsonParse(args[2]).value]
    ELSE IF Len(args) >= 4
      THEN [ok |-> TRUE, value |-> CredsObject(args[2], args[3], args[4])]
      ELSE [ok |-> FALSE, value |-> JsUndefined]

\* how a ScriptRunner.run call settles, as far as a front end looks at it:
\* it returns a payload whose success is true or false, returns undefined
\* (a guest without return statement), or rejects
RunResults ==
  {[kind |-> "returned", payload |-> "object", success |-> TRUE],
   [kind |-> "returned", payload |-> "object", success |-> FALSE],
   [kind |-> "returned", payload |-> "undefined", success |-> FALSE],
   [kind |-> "rejected", payload |-> "none", success |-> FALSE]}
NoResult == [kind |-> "pending", payload |-> "none", success |-> FALSE]

\* the try block of cli(): result.success decides between the success report
\* and process.exit(1); reading .success of undefined throws into the catch,
\* which exits with 1 as well
CliExit(result) ==
  IF result.kind = "returned" /\ result.payload = "object" /\ result.success
    THEN 0 ELSE 1

\* bodies of POST /scripts/execute by the fields the handler looks at
Requests ==
  [credentials : BOOLEAN, script : {"scriptPath", "scriptName", "none"},
   exists : BOOLEAN]
NoRequest == [credentials |-> FALSE, script |-> "none", exists |-> FALSE]

HttpAnswer(status, success, message) ==
  [status |-> status, success |-> success, message |-> message]
NoResponse == HttpAnswer(NotGiven, FALSE, "none")

\* the checks of the handler before it runs the script
HttpValidate(req) ==
  IF ~req.credentials THEN HttpAnswer(400, FALSE, "Credentials are required")
  ELSE IF req.script = "none"
    THEN HttpAnswer(400, FALSE, "Either scriptPath or scriptName is required")
  ELSE IF ~req.exists THEN HttpAnswer(404, FALSE, "Script not found")
  ELSE NoResponse

\* res.json({ success: true, message: 'Script executed successfully', result })
\* for whatever run returned; the catch block answers 500
HttpRespond(result) ==
  IF result.kind = "returned"
    THEN HttpAnswer(200, TRUE, "Script executed successfully")
    ELSE HttpAnswer(500, FALSE, "Script execution failed")

NoCall == [made |-> FALSE]
RunCall(source, credentials) ==
  [made |-> TRUE, source |-> source, credentials |-> credentials]

FrontIdle ==
  /\ argv = << >>
  /\ request = NoRequest
  /\ frontPhase = "idle"
  /\ runCall = NoCall
  /\ runResult = NoResult
  /\ exitCode = NotGiven
  /\ response = NoResponse

\* ------------------------------- host-side effects of one guest, in order
\* operations one guest issues before it returns
MaxIssued == 2

\* what the host's loop is asked to do by an isolate: run a logger callback,
\* run a capability (httpGet, httpPost, sleep), settle the promise of
\* runRef.apply with the guest's result
TaskKinds == {"log", "cap", "result"}
Task(r, kind, n) == [run |-> r, kind |-> kind, n |-> n]

\* host-side effects: a console line of the logger, the start of a
\* capability's host operation, its settlement, the result handed to the
\* caller of runScript
Effect(r, kind, n) == [run |-> r, kind |-> kind, n |-> n]

\* a loop that serves the call posted last first
TaskOrderNewestFirst(q) == [i \in 1 .. Len(q) |-> q[Len(q) + 1 - i]]

\* reference.apply(...) posts the call to the isolate that owns the function;
\* the host's loop serves the calls in the order they were posted
TaskOrder(q) == q

\* the engines in which a guest gets to run
GuestEngines == {"ivmCfg", "ivmSync", "vm"}

\* the guest shares the host's thread and calls the helpers directly
Direct == engine = "vm"

OrderIdle ==
  /\ issued = [r \in Runs |-> 0]
  /\ guestAt = [r \in Runs |-> "idle"]
  /\ hostQueue = << >>
  /\ trace = << >>

\* ------------------------------------------------ the paginated fetch loop
\* largest totalCount a response reports, most results in one response,
\* and the page number from which pages are no longer told apart
MaxTotal == 2
MaxPageLen == 2
MaxPages == 3

\* lengths of allDevices are told apart up to one more than any totalCount
MaxDevices == MaxTotal + 1

FetchScripts == {"jamf-device-fetcher.js", "jamf-device-analyzer.js"}

\* how httpGet settles: with a body whose results field is an array of len
\* entries or is missing, and whose totalCount is a number or missing; or
\* with a rejection
PageResponses ==
  [kind : {"resolved"}, isArray : {TRUE}, len : 0 .. MaxPageLen,
   totalCount : {NotGiven} \cup (0 .. MaxTotal)]
  \cup [kind : {"resolved"}, isArray : {FALSE}, len : {0},
        totalCount : {NotGiven} \cup (0 .. MaxTotal)]
  \cup {[kind |-> "rejected", isArray |-> FALSE, len |-> 0, totalCount |-> NotGiven]}
NoPageResponse == [kind |-> "none", isArray |-> FALSE, len |-> 0, totalCount |-> NotGiven]

\* response.totalCount || 0
TotalCountOf(resp) == IF resp.totalCount = NotGiven THEN 0 ELSE resp.totalCount

\* allDevices.push(...response.results), as far as the length goes
Pushed(n, resp) == IF n + resp.len > MaxDevices THEN MaxDevices ELSE n + resp.len

\* hasMorePages = allDevices.length < totalCount
HasMorePages(n, resp) == n < TotalCountOf(resp)

\* page++
NextPage(p) == IF p < MaxPages THEN p + 1 ELSE MaxPages

\* the await of httpGet throws on a rejection; the fetcher throws 'Invalid
\* response format from Jamf API' when results is not an array; the
\* analyzer's push(...response.results) throws a TypeError then
PageThrows(resp) == resp.kind = "rejected" \/ ~resp.isArray

FetchIdle ==
  /\ fetchScript = "none"
  /\ fetchPhase = "idle"
  /\ page = 0
  /\ allDevices = 0
  /\ fetchResponse = NoPageResponse

Init ==
  /\ engine \in Engines
  /\ helpersExport \in HelperExports
  /\ (engine # "ivmCfg" => helpersExport = "class")
  /\ RunsIdle
  /\ LoaderIdle
  /\ OptionsIdle
  /\ FrontIdle
  /\ OrderIdle
  /\ FetchIdle

\* a host that performs capability calls synchronously: nothing runs while
\* one of them is pending
BlockedWhileCapabilityPending ==
  \/ processDown
  \/ \E r \in Runs : phase[r] \in {"topLevelLoop", "spinning", "awaitingCap"}

\* nothing of the process runs: it has exited, or its only thread is inside a
\* synchronous call that does not return, which is script.runSync(context) /
\* script.runInContext(context) on a script that loops at top level, or
\* context.run(credentials) of the vm engine on a run that loops; a pending
\* capability call is a promise and holds nothing up
Blocked ==
  \/ processDown
  \/ \E r \in Runs : phase[r] = "topLevelLoop"
  \/ engine = "vm" /\ \E r \in Runs : phase[r] = "spinning"

\* a runner that starts the failed stage again
PhaseAfterFailureRetries(e) ==
  IF e \in {"SourceReadFailure", "NotImplementedSource", "UnsupportedSourceKind"}
    THEN "installed" ELSE "done"

\* every throw inside runScript leaves it: there is no loop and no catch that
\* starts a stage again
PhaseAfterFailure(e) == "done"

\* runScript rejects with e; ScriptRunner.run catches, logs and settles;
\* the time of a finished run is no longer measured
Fail(r, e) ==
  /\ phase' = [phase EXCEPT ![r] = PhaseAfterFailure(e)]
  /\ raised' = [raised EXCEPT ![r] = e]
  /\ outcome' = [outcome EXCEPT ![r] = DriverCatch(e)]
  /\ timer' = [timer EXCEPT ![r] = "off"]

\* runScript up to its first await.  Object.keys(credentials) throws a
\* TypeError for null/undefined credentials before anything is allocated.
StartRun(r) ==
  /\ ~Blocked
  /\ phase[r] = "idle"
  /\ \E c \in Creds :
       /\ callerCreds' = [callerCreds EXCEPT ![r] = c]
       /\ creds0' = [creds0 EXCEPT ![r] = c]
       /\ executionId' = [executionId EXCEPT ![r] = NewExecutionId(r)]
       /\ IF ~c.isObj
            THEN /\ Fail(r, "TypeError")
                 /\ UNCHANGED <<ctx, nextCtx, liveIsolates, hostBindings>>
            ELSE /\ phase' = [phase EXCEPT ![r] =
                        IF engine \in {"ivmSync", "vm"} THEN "installed" ELSE "created"]
                 /\ ctx' = [ctx EXCEPT ![r] = NewContext]
                 /\ nextCtx' = nextCtx + 1
                 /\ liveIsolates' = IF engine \in IvmEngines
                                      THEN liveIsolates \cup {NewContext} ELSE liveIsolates
                 /\ hostBindings' = [hostBindings EXCEPT ![r] =
                        IF engine \in {"ivmSync", "vm"} THEN InstalledBindings ELSE RawBindings]
                 /\ UNCHANGED <<raised, outcome, timer>>
  /\ UNCHANGED <<sideVars, cfgVars, loaderVars, optionVars, frontVars, auditVars, topLevel, guestCreds, credsAliased, guestReturn,
                 invokeAttempted, guestOps, logVars, guestVars>>

\* injectHelpers after its await (part_004: context.eval; part_005: jail.set)
InstallCapabilities(r) ==
  /\ ~Blocked
  /\ phase[r] = "created"
  /\ hostBindings' = [hostBindings EXCEPT ![r] = InstalledBindings]
  /\ IF InstallSucceeds
       THEN /\ phase' = [phase EXCEPT ![r] = "installed"]
            /\ UNCHANGED <<raised, outcome, timer>>
       ELSE Fail(r, "DataCloneError")
  /\ UNCHANGED <<sideVars, cfgVars, loaderVars, optionVars, frontVars, auditVars, credVars, topLevel, executionId, ctx, nextCtx, liveIsolates,
                 guestReturn, invokeAttempted, guestOps, logVars, guestVars>>

\* one more entry into a stage of run r
Entered(r, stage) == [attempts EXCEPT ![r][stage] = @ + 1]

\* loadScript, first try block: await this.scriptLoader.loadScript(source)
ResolveSource(r) ==
  /\ ~Blocked
  /\ phase[r] = "installed"
  /\ attempts' = Entered(r, "resolve")
  /\ \E s \in Sources :
       IF LoadScript(s).ok
         THEN /\ phase' = [phase EXCEPT ![r] = "resolved"]
              /\ UNCHANGED <<raised, outcome, timer>>
         ELSE Fail(r, LoadScript(s).error)
  /\ UNCHANGED <<sideVars, cfgVars, loaderVars, optionVars, frontVars, capLog, processDown,
                 credVars, topLevel, executionId, ctx, nextCtx, liveIsolates,
                 hostBindings, guestReturn, invokeAttempted, guestOps, logVars,
                 guestVars>>

\* a loader that goes on to the entry point after a top-level error
TopLevelErrorSwallowed(t) == FALSE

\* compileScriptSync / runSync (new vm.Script / runInContext) threw
TopLevelThrows(t) == t = "throws"

\* loadScript, second try block: compile and run the text at top level; the
\* calls are synchronous and carry no timeout
CompileScript(r) ==
  /\ ~Blocked
  /\ phase[r] = "resolved"
  /\ attempts' = Entered(r, "compile")
  /\ \E t \in TopLevels :
       /\ topLevel' = [topLevel EXCEPT ![r] = t]
       /\ IF TopLevelThrows(t)
            THEN Fail(r, "CompileFailure")
            ELSE /\ phase' = [phase EXCEPT ![r] =
                        IF t = "loops" THEN "topLevelLoop" ELSE "compiled"]
                 /\ UNCHANGED <<raised, outcome, timer>>
  /\ UNCHANGED <<sideVars, cfgVars, loaderVars, optionVars, frontVars, capLog, processDown,
                 credVars, executionId, ctx, nextCtx, liveIsolates,
                 hostBindings, guestReturn, invokeAttempted, guestOps, logVars,
                 guestVars>>

\* executeRunFunction up to the call of the guest's run
InvokeEntryPoint(r) ==
  /\ ~Blocked
  /\ phase[r] = "compiled"
  /\ IF ~RunExists(topLevel[r])
       THEN /\ Fail(r, "MissingEntryPoint")
            /\ UNCHANGED <<guestCreds, credsAliased, invokeAttempted, attempts>>
       ELSE /\ invokeAttempted' = [invokeAttempted EXCEPT ![r] = TRUE]
            /\ attempts' = Entered(r, "invoke")
            /\ credsAliased' = [credsAliased EXCEPT ![r] = PassesCallerObject]
            /\ guestCreds' = [guestCreds EXCEPT ![r] = CredentialsCopy(callerCreds[r])]
            /\ IF topLevel[r] = "definesRun"
                 THEN /\ phase' = [phase EXCEPT ![r] = "running"]
                      /\ timer' = [timer EXCEPT ![r] = "armed"]
                      /\ UNCHANGED <<raised, outcome>>
                 ELSE Fail(r, "GuestError")
  /\ UNCHANGED <<sideVars, cfgVars, loaderVars, optionVars, frontVars, capLog, processDown,
                 callerCreds, creds0, topLevel, executionId, ctx, nextCtx,
                 liveIsolates, hostBindings, guestReturn, guestOps, logVars, guestVars>>

\* ----------------------------------------------------------- the guest
\* the guest is running its run function and may perform one more operation;
\* guestOps counts the operations that left a trace in the state (one that
\* leaves none is a stuttering step)
GuestCanAct(r) ==
  /\ ~Blocked
  /\ phase[r] = "running"
  /\ guestOps < MaxGuestOps

\* credentials.x = 42 / delete credentials.x inside the guest
GuestMutatesCredentials(r) ==
  /\ GuestCanAct(r)
  /\ guestOps' = guestOps + 1
  /\ \E v \in {"42", "absent"} :
       IF credsAliased[r]
         THEN /\ callerCreds' = [callerCreds EXCEPT ![r].x = v]
              /\ UNCHANGED guestCreds
         ELSE /\ guestCreds' = [guestCreds EXCEPT ![r].x = v]
              /\ UNCHANGED callerCreds
  /\ UNCHANGED <<sideVars, cfgVars, loaderVars, optionVars, frontVars, auditVars, runVars, creds0, credsAliased, logVars, guestVars>>

\* logger.<level>(...) in the guest and the host callback it reaches:
\*  ivmSync: _log prints with the id of the closure;
\*  ivmCfg : the callback patches console.<s>, calls the imported
\*           logger.<level>, and restores; with logger undefined the call
\*           throws and the restore is never reached;
\*  vm     : the ScriptHelpers logger prints with the fixed tag [sandbox]
GuestLogs(r) ==
  /\ GuestCanAct(r)
  /\ guestOps' = guestOps + 1
  /\ \E level \in Levels :
       LET s == StreamOf(level)
           patched == PatchConsole(consolePatch[s], executionId[r])
       IN CASE engine = "ivmSync" ->
                 /\ hostLog' = hostLog \cup {[run |-> r, tags |-> {executionId[r]}]}
                 /\ UNCHANGED consolePatch
            [] engine = "ivmCfg" /\ ~HelpersUndefined ->
                 /\ hostLog' = hostLog \cup {[run |-> r, tags |-> Range(patched)]}
                 /\ consolePatch' = [consolePatch EXCEPT ![s] = RestoreConsole(patched)]
            [] engine = "ivmCfg" /\ HelpersUndefined ->
                 /\ consolePatch' = [consolePatch EXCEPT ![s] = patched]
                 /\ UNCHANGED hostLog
            [] engine = "vm" ->
                 /\ hostLog' = hostLog \cup {[run |-> r, tags |-> Range(consolePatch[s])]}
                 /\ UNCHANGED consolePatch
            [] engine = "ivmOld" ->
                 UNCHANGED <<hostLog, consolePatch>>
  /\ <<hostLog, consolePatch>>' # <<hostLog, consolePatch>>
  /\ UNCHANGED <<sideVars, cfgVars, loaderVars, optionVars, frontVars, auditVars, runVars, credVars, guestVars>>

\* logger.f = ... / globalThis.g = ... in the guest
GuestWrites(r) ==
  /\ GuestCanAct(r)
  /\ guestOps' = guestOps + 1
  /\ \E t \in Targets :
       mark' = [mark EXCEPT ![t][ObjectOf(r, t)] = r]
  /\ mark' # mark
  /\ UNCHANGED <<sideVars, cfgVars, loaderVars, optionVars, frontVars, auditVars, runVars, credVars, logVars, observed, capSettle, reachedOther>>

\* the guest reads logger.f / globalThis.g
GuestReads(r) ==
  /\ GuestCanAct(r)
  /\ guestOps' = guestOps + 1
  /\ \E t \in Targets :
       observed' = [observed EXCEPT ![r] = @ \cup ({mark[t][ObjectOf(r, t)]} \ {0})]
  /\ observed' # observed
  /\ UNCHANGED <<sideVars, cfgVars, loaderVars, optionVars, frontVars, auditVars, runVars, credVars, logVars, mark, capSettle, reachedOther>>

\* the guest resolves one of the names the host bound in its global object
GuestProbes(r) ==
  /\ GuestCanAct(r)
  /\ guestOps' = guestOps + 1
  /\ \E b \in hostBindings[r] :
       /\ b.kind # "undefined"
       /\ reachedOther' = [reachedOther EXCEPT ![r] =
                             @ \/ b.name \notin FiveNames \cup {"global"}]
  /\ reachedOther' # reachedOther
  /\ UNCHANGED <<sideVars, cfgVars, loaderVars, optionVars, frontVars, auditVars, runVars, credVars, logVars, mark, observed, capSettle>>

\* the line the host-side capability writes before its request:
\* console.log(`📡 GET: ${url}`); the function has no correlation id at hand
CapabilityLogLine(r) == [run |-> r, tags |-> {}]

\* one capability call of the guest of r that caused n host requests
Called(r, n) ==
  [attempts EXCEPT ![r].capCalls = @ + 1, ![r].hostRequests = @ + n]

\* httpGet(...) / httpPost(...) in the guest, awaited or not: the wrapper
\* applies the Reference (the vm engine calls the host function), which
\* logs and starts one request
GuestCallsHttp(r) ==
  /\ GuestCanAct(r)
  /\ guestOps' = guestOps + 1
  /\ IF HelpersUndefined
       THEN /\ capSettle' = [capSettle EXCEPT ![r] = BridgeTypeError]
            /\ attempts' = Called(r, 0)
            /\ UNCHANGED <<phase, capLog>>
       ELSE /\ \E awaited \in BOOLEAN :
                 /\ phase' = [phase EXCEPT ![r] = IF awaited THEN "awaitingCap" ELSE @]
                 /\ capSettle' = [capSettle EXCEPT ![r] =
                                    IF awaited THEN NoSettle ELSE InFlight]
            /\ attempts' = Called(r, 1)
            /\ capLog' = capLog \cup {CapabilityLogLine(r)}
  /\ UNCHANGED <<sideVars, cfgVars, loaderVars, optionVars, frontVars, processDown, credVars,
                 logVars, mark, observed, reachedOther, topLevel,
                 executionId, ctx, nextCtx, liveIsolates, hostBindings, raised,
                 guestReturn, invokeAttempted, timer, outcome>>

\* a rejected promise of the host that nobody handles: the vm engine hands
\* the guest the host's own promise, so a failed call the guest did not
\* await is an unhandled rejection of the Node process
UnhandledInHost(r, ok) ==
  engine = "vm" /\ ~ok /\ capSettle[r] = InFlight

\* the host HTTP client answers or fails.  A guest awaiting the call goes
\* on; a call that was not awaited settles whatever its run is doing, after
\* the run has ended too.  On an unhandled rejection Node warns or exits,
\* by its version and flags.
HostHttpSettles(r) ==
  /\ ~Blocked
  /\ phase[r] = "awaitingCap" \/ capSettle[r] = InFlight
  /\ \E ok \in BOOLEAN :
       /\ capSettle' = [capSettle EXCEPT ![r] = HttpSettle(ok)]
       /\ IF UnhandledInHost(r, ok)
            THEN processDown' \in BOOLEAN
            ELSE UNCHANGED processDown
  /\ phase' = [phase EXCEPT ![r] = IF @ = "awaitingCap" THEN "running" ELSE @]
  /\ UNCHANGED <<sideVars, cfgVars, loaderVars, optionVars, frontVars, attempts, capLog, credVars,
                 logVars, mark, observed, reachedOther, topLevel,
                 executionId, ctx, nextCtx, liveIsolates, hostBindings, raised,
                 guestReturn, invokeAttempted, timer, outcome, guestOps>>

\* the guest's run returns (or its promise resolves to) a value; the host
\* takes it across the boundary and runScript settles with it
GuestReturns(r) ==
  /\ ~Blocked
  /\ phase[r] = "running"
  /\ \E v \in ReturnValues :
       /\ guestReturn' = [guestReturn EXCEPT ![r] = v]
       /\ IF ResultTransfer(v).ok
            THEN /\ outcome' = [outcome EXCEPT ![r] = DriverReturn(ResultTransfer(v).value)]
                 /\ phase' = [phase EXCEPT ![r] = "done"]
                 /\ timer' = [timer EXCEPT ![r] = "off"]
                 /\ UNCHANGED raised
            ELSE Fail(r, "SerializationError")
  /\ UNCHANGED <<sideVars, cfgVars, loaderVars, optionVars, frontVars, auditVars, credVars, logVars, guestVars, guestOps,
                 topLevel, executionId, ctx, nextCtx, liveIsolates, hostBindings,
                 invokeAttempted>>

\* the guest's run throws, or its promise rejects
GuestThrows(r) ==
  /\ ~Blocked
  /\ phase[r] = "running"
  /\ Fail(r, "GuestError")
  /\ UNCHANGED <<sideVars, cfgVars, loaderVars, optionVars, frontVars, auditVars, credVars, logVars, guestVars, guestOps, topLevel, executionId,
                 ctx, nextCtx, liveIsolates, hostBindings, guestReturn, invokeAttempted>>

\* the guest's run returns a promise that never settles
GuestHangs(r) ==
  /\ ~Blocked
  /\ phase[r] = "running"
  /\ phase' = [phase EXCEPT ![r] = "hung"]
  /\ UNCHANGED <<sideVars, cfgVars, loaderVars, optionVars, frontVars, auditVars, credVars, logVars, guestVars, guestOps, topLevel, executionId,
                 ctx, nextCtx, liveIsolates, hostBindings, raised, guestReturn,
                 invokeAttempted, timer, outcome>>

\* the guest's run loops synchronously, before its first await
GuestSpins(r) ==
  /\ ~Blocked
  /\ phase[r] = "running"
  /\ capSettle[r] \in {NoSettle, InFlight}
  /\ phase' = [phase EXCEPT ![r] = "spinning"]
  /\ UNCHANGED <<sideVars, cfgVars, loaderVars, optionVars, frontVars, auditVars, credVars, logVars, guestVars, guestOps, topLevel, executionId,
                 ctx, nextCtx, liveIsolates, hostBindings, raised, guestReturn,
                 invokeAttempted, timer, outcome>>

\* ------------------------------------------------------------------ time
\* the timeout option of runRef.apply bounds the synchronous execution of the
\* call; the vm engine passes no timeout at all
TimeoutApplies(r) == engine \in IvmEngines /\ phase[r] = "spinning"

\* executionTimeout elapses while the guest has not finished
DeadlineElapses(r) ==
  /\ phase[r] \in {"awaitingCap", "hung", "spinning"}
  /\ timer[r] = "armed"
  /\ timer' = [timer EXCEPT ![r] = "elapsed"]
  /\ UNCHANGED <<sideVars, cfgVars, loaderVars, optionVars, frontVars, auditVars, credVars, logVars, guestVars, guestOps, phase, topLevel,
                 executionId, ctx, nextCtx, liveIsolates, hostBindings, raised,
                 guestReturn, invokeAttempted, outcome>>

\* the whole of executionTimeout and more passes while the host thread is
\* inside the top-level execution of the script of r, which has no timeout
DeadlinePasses(r) ==
  /\ phase[r] = "topLevelLoop"
  /\ timer[r] = "off"
  /\ timer' = [timer EXCEPT ![r] = "overdue"]
  /\ UNCHANGED <<sideVars, cfgVars, loaderVars, optionVars, frontVars, auditVars, credVars, logVars,
                 guestVars, guestOps, phase, topLevel,
                 executionId, ctx, nextCtx, liveIsolates, hostBindings, raised,
                 guestReturn, invokeAttempted, outcome>>

\* the isolate interrupts the synchronous call: "Script execution timed out."
TimeoutKill(r) ==
  /\ ~Blocked
  /\ TimeoutApplies(r)
  /\ timer[r] = "elapsed"
  /\ Fail(r, "ExecutionTimeout")
  /\ UNCHANGED <<sideVars, cfgVars, loaderVars, optionVars, frontVars, auditVars, credVars, logVars, guestVars, guestOps, topLevel, executionId,
                 ctx, nextCtx, liveIsolates, hostBindings, guestReturn, invokeAttempted>>

\* the grace period after the deadline elapses too; an interrupt that is due
\* happens before that
GraceElapses(r) ==
  /\ phase[r] \in {"awaitingCap", "hung", "spinning"}
  /\ timer[r] = "elapsed"
  /\ ~TimeoutApplies(r) \/ Blocked
  /\ timer' = [timer EXCEPT ![r] = "overdue"]
  /\ UNCHANGED <<sideVars, cfgVars, loaderVars, optionVars, frontVars, auditVars, credVars, logVars, guestVars, guestOps, phase, topLevel,
                 executionId, ctx, nextCtx, liveIsolates, hostBindings, raised,
                 guestReturn, invokeAttempted, outcome>>

\* ---------------------------------------------- the script loader, steps
\* loadScript(source) up to its first await: every arm but the file stream
\* has settled by then
LoadScriptCall(c) ==
  /\ ldPhase[c] = "idle"
  /\ \E source \in SourceValues :
       /\ ldSource' = [ldSource EXCEPT ![c] = source]
       /\ IF OpensStream(source)
            THEN /\ ldPhase' = [ldPhase EXCEPT ![c] = "reading"]
                 /\ UNCHANGED <<ldResult, ldSettles>>
            ELSE /\ ldPhase' = [ldPhase EXCEPT ![c] = "settled"]
                 /\ ldResult' = [ldResult EXCEPT ![c] = LoadImmediate(source)]
                 /\ ldSettles' = [ldSettles EXCEPT ![c] = @ + 1]
  /\ UNCHANGED <<sideVars, cfgVars, runVars, credVars, guestOps, logVars, guestVars, auditVars,
                 frontVars, optionVars,
                 ldChunks>>

\* stream.on('data', chunk => chunks.push(chunk))
StreamData(c) ==
  /\ ldPhase[c] = "reading"
  /\ Len(ldChunks[c]) < Len(Disk(ldSource[c].path).chunks)
  /\ ldChunks' = [ldChunks EXCEPT ![c] =
                    Append(@, Disk(ldSource[c].path).chunks[Len(@) + 1])]
  /\ UNCHANGED <<sideVars, cfgVars, runVars, credVars, guestOps, logVars, guestVars, auditVars,
                 frontVars, optionVars,
                 ldSource, ldPhase, ldResult, ldSettles>>

\* stream.on('end', () => resolve(chunks.join('')))
StreamEnd(c) ==
  /\ ldPhase[c] = "reading"
  /\ Len(ldChunks[c]) = Len(Disk(ldSource[c].path).chunks)
  /\ ~Disk(ldSource[c].path).fails
  /\ ldResult' = [ldResult EXCEPT ![c] = LdResolved("text", Join(ldChunks[c]))]
  /\ ldSettles' = [ldSettles EXCEPT ![c] = @ + 1]
  /\ ldPhase' = [ldPhase EXCEPT ![c] = "settled"]
  /\ UNCHANGED <<sideVars, cfgVars, runVars, credVars, guestOps, logVars, guestVars, auditVars,
                 frontVars, optionVars,
                 ldSource, ldChunks>>

\* stream.on('error', error => reject(...)); the stream is destroyed and
\* emits nothing after it
StreamError(c) ==
  /\ ldPhase[c] = "reading"
  /\ Len(ldChunks[c]) = Len(Disk(ldSource[c].path).chunks)
  /\ Disk(ldSource[c].path).fails
  /\ ldResult' = [ldResult EXCEPT ![c] =
                    ReadFailure(ldSource[c].path, Disk(ldSource[c].path).cause,
                                ldChunks[c])]
  /\ ldSettles' = [ldSettles EXCEPT ![c] = @ + 1]
  /\ ldPhase' = [ldPhase EXCEPT ![c] = "settled"]
  /\ UNCHANGED <<sideVars, cfgVars, runVars, credVars, guestOps, logVars, guestVars, auditVars,
                 frontVars, optionVars,
                 ldSource, ldChunks>>

NextLoader ==
  \E c \in Calls :
    \/ LoadScriptCall(c)
    \/ StreamData(c)
    \/ StreamEnd(c)
    \/ StreamError(c)

\* the loader is the same under every engine
InitLoader ==
  /\ engine = "ivmCfg"
  /\ helpersExport = "class"
  /\ RunsIdle
  /\ LoaderIdle
  /\ OptionsIdle
  /\ FrontIdle
  /\ OrderIdle
  /\ FetchIdle

SpecLoader == InitLoader /\ [][NextLoader]_vars

\* --------------------------------------------- run configuration, steps
\* the embedding program constructs its runner with a configuration object
Construct ==
  /\ caller = "none"
  /\ \E who \in Callers, opts \in Options :
       /\ caller' = who
       /\ options' = opts
       /\ runnerConfig' = EngineConfig(PassedToEngine(who, opts))
  /\ UNCHANGED <<sideVars, cfgVars, runVars, credVars, guestOps, logVars, guestVars, auditVars,
                 frontVars, loaderVars,
                 isolateMemory, applyTimeout>>

\* runScript creates the isolate of run r
CreateIsolate(r) ==
  /\ caller # "none"
  /\ r \notin DOMAIN isolateMemory
  /\ isolateMemory' = isolateMemory @@ (r :> IsolateMemoryLimit)
  /\ UNCHANGED <<sideVars, cfgVars, runVars, credVars, guestOps, logVars, guestVars, auditVars,
                 frontVars, loaderVars,
                 caller, options, runnerConfig, applyTimeout>>

\* executeRunFunction invokes the entry point of run r
ApplyRun(r) ==
  /\ r \in DOMAIN isolateMemory
  /\ r \notin DOMAIN applyTimeout
  /\ applyTimeout' = applyTimeout @@ (r :> ApplyTimeout)
  /\ UNCHANGED <<sideVars, cfgVars, runVars, credVars, guestOps, logVars, guestVars, auditVars,
                 frontVars, loaderVars,
                 caller, options, runnerConfig, isolateMemory>>

NextConfig ==
  \/ Construct
  \/ \E r \in Runs : CreateIsolate(r) \/ ApplyRun(r)

SpecConfig == Init /\ [][NextConfig]_vars

\* --------------------------------------- the CLI and the endpoint, steps
RECURSIVE ArgLists(_)
\* every command line of n words
ArgLists(n) ==
  IF n = 0 THEN {<< >>}
  ELSE {Append(a, w) : a \in ArgLists(n - 1), w \in Words}

\* cli() up to the await of this.run
CliStart ==
  /\ frontPhase = "idle"
  /\ \E n \in 0 .. MaxArgs : \E args \in ArgLists(n) :
       /\ argv' = args
       /\ IF Len(args) < 2 \/ ~CliCredentials(args).ok
            THEN /\ frontPhase' = "cliUsage"
                 /\ exitCode' = 0
                 /\ UNCHANGED runCall
            ELSE /\ frontPhase' = "cliRunning"
                 /\ runCall' = RunCall(CliSource(args), CliCredentials(args).value)
                 /\ UNCHANGED exitCode
  /\ UNCHANGED <<sideVars, cfgVars, runVars, credVars, guestOps, logVars, guestVars, auditVars,
                 loaderVars, optionVars, request, runResult, response>>

\* the run call settles and cli() reports
CliFinish ==
  /\ frontPhase = "cliRunning"
  /\ \E result \in RunResults :
       /\ runResult' = result
       /\ exitCode' = CliExit(result)
  /\ frontPhase' = "cliExited"
  /\ UNCHANGED <<sideVars, cfgVars, runVars, credVars, guestOps, logVars, guestVars, auditVars,
                 loaderVars, optionVars, argv, request, runCall, response>>

\* POST /scripts/execute up to the await of scriptRunner.run
HttpReceive ==
  /\ frontPhase = "idle"
  /\ \E req \in Requests :
       /\ request' = req
       /\ response' = HttpValidate(req)
       /\ IF HttpValidate(req) = NoResponse
            THEN /\ frontPhase' = "httpRunning"
                 /\ runCall' = RunCall(JsString(req.script), JsObject(<< >>))
            ELSE /\ frontPhase' = "httpResponded"
                 /\ UNCHANGED runCall
  /\ UNCHANGED <<sideVars, cfgVars, runVars, credVars, guestOps, logVars, guestVars, auditVars,
                 loaderVars, optionVars, argv, runResult, exitCode>>

\* the run call settles and the handler answers
HttpFinish ==
  /\ frontPhase = "httpRunning"
  /\ \E result \in RunResults :
       /\ runResult' = result
       /\ response' = HttpRespond(result)
  /\ frontPhase' = "httpResponded"
  /\ UNCHANGED <<sideVars, cfgVars, runVars, credVars, guestOps, logVars, guestVars, auditVars,
                 loaderVars, optionVars, argv, request, runCall, exitCode>>

NextFront ==
  \/ CliStart
  \/ CliFinish
  \/ HttpReceive
  \/ HttpFinish

\* the front ends are the same under every engine
InitFront ==
  /\ engine = "ivmCfg"
  /\ helpersExport = "class"
  /\ RunsIdle
  /\ LoaderIdle
  /\ OptionsIdle
  /\ FrontIdle
  /\ OrderIdle
  /\ FetchIdle

SpecFront == InitFront /\ [][NextFront]_vars

\* ================================================================ claims
Finished(r) == phase[r] = "done"

\* capability installation has completed for run r
Installed(r) ==
  /\ phase[r] \notin {"idle", "created"}
  /\ raised[r] \notin {"TypeError", "DataCloneError"}

\* the names the host bound to something in the guest's global namespace
BoundNames(r) == {b.name : b \in {c \in hostBindings[r] : c.kind # "undefined"}}

C2_DeadlineAlwaysEndsRun ==
  \A r \in Runs :
    timer[r] = "overdue" => outcome[r] = Rejected("ExecutionTimeout")

\* C3: after run has returned, the caller's credentials object has the value
\* it had before the call, whatever the guest did to its argument.
C3_CallerCredentialsUnchanged ==
  \A r \in Runs : Finished(r) => callerCreds[r] = creds0[r]

\* C4: when a run has reached a terminal outcome, the isolate created for it
\* is no longer live.
C4_IsolateDestroyedAtEnd ==
  \A r \in Runs : Finished(r) => ctx[r] \notin liveIsolates

C6_NoCrossRunObservation ==
  \A r \in Runs : observed[r] \subseteq {r}

\* C7: every runScript call given a credentials object has exactly one
\* isolation context, no more contexts exist than such calls, and the
\* contexts of distinct runs are distinct.
C7_OneContextPerRun ==
  /\ \A r \in Runs : phase[r] # "idle" /\ creds0[r].isObj => ctx[r] # 0
  /\ Cardinality({r \in Runs : ctx[r] # 0}) = nextCtx - 1
  /\ \A r, q \in Runs : r # q /\ ctx[r] # 0 => ctx[r] # ctx[q]

C7_Witness ==
  \A r \in Runs : phase[r] \in {"running", "awaitingCap"} /\ ctx[r] # 0

\* C8: a run whose compiled script left no global function run ends with the
\* missing-entry-point error, without the invocation being attempted and
\* without any value returned, for any credentials.
C8_MissingEntryPointFails ==
  \A r \in Runs :
    topLevel[r] = "noRun" =>
      /\ ~invokeAttempted[r]
      /\ guestReturn[r] = "none"
      /\ phase[r] \in {"compiled", "done"}
      /\ (Finished(r) => outcome[r] = Rejected("MissingEntryPoint"))

C8_Witness ==
  \E r \in Runs :
    /\ Finished(r) /\ topLevel[r] = "noRun" /\ creds0[r].isObj
    /\ outcome[r] = Rejected("MissingEntryPoint")

\* C9: when an httpGet / httpPost capability call fails on the host side, the
\* guest's promise rejects and the rejection carries the message only.
C9_HttpFailureRejectsWithMessageOnly ==
  \A r \in Runs :
    capSettle[r].hostFailed =>
      /\ capSettle[r].how = "rejected"
      /\ capSettle[r].carries \subseteq {"message"}

\* C10: from capability installation on, the host-provided bindings in the
\* guest's global namespace are exactly the five capability names (besides
\* the global self-reference), and the guest reaches no other one.
C10_ExactlyFiveBindings ==
  \A r \in Runs :
    Installed(r) =>
      /\ BoundNames(r) \ {"global"} = FiveNames
      /\ ~reachedOther[r]

\* C11: the guest never holds a live host function or host object among its
\* bindings, and no guest write ever lands on an object of the host (the
\* logger object of the runner's ScriptHelpers instance is object 0).
C11_GuestHoldsOnlyCopies ==
  /\ \A r \in Runs :
       \A b \in hostBindings[r] : b.kind \notin {"hostFunction", "hostObject"}
  /\ mark["logger"][0] = 0

\* C12: a finished run whose guest returned a JSON-serializable value has
\* returned exactly that value to the caller, and one whose guest returned a
\* value that is not serializable has failed with SerializationError.
C12_ReturnPassesThroughOrFails ==
  \A r \in Runs :
    Finished(r) /\ guestReturn[r] # "none" =>
      IF JsonSerializable(guestReturn[r])
        THEN outcome[r] = Returned(guestReturn[r])
        ELSE outcome[r] = Rejected("SerializationError")

\* a loadScript call that has settled on a tagged source of the given type
SettledOn(c, type) ==
  /\ ldPhase[c] = "settled"
  /\ ldSource[c].shape = "object"
  /\ ldSource[c].type = type

\* C13: loadScript of an s3 source, whatever its bucket and key, rejects with
\* the not-implemented failure and the message spells out both the bucket and
\* the key.
C13_S3AlwaysNotImplemented ==
  \A c \in Calls :
    SettledOn(c, "s3") =>
      /\ ldResult[c].kind = "rejected"
      /\ ldResult[c].error = "NotImplementedSource"
      /\ {ldSource[c].bucket, ldSource[c].key} \subseteq ldResult[c].names

\* C14: loadScript of a database source rejects with the not-implemented
\* failure (not the unsupported-kind one) and the message names the scriptId.
C14_DatabaseNotImplemented ==
  \A c \in Calls :
    SettledOn(c, "database") =>
      /\ ldResult[c].kind = "rejected"
      /\ ldResult[c].error = "NotImplementedSource"
      /\ ldSource[c].scriptId \in ldResult[c].names

\* C15: loadScript of anything but a bare string, a file source or an inline
\* source rejects, and of a tag that is none of file, inline, s3, database it
\* rejects with the unsupported-kind failure.
C15_OtherSourcesAlwaysFail ==
  \A c \in Calls :
    /\ ldPhase[c] = "settled"
    /\ ldSource[c].shape # "string"
    /\ ~(ldSource[c].shape = "object" /\ ldSource[c].type \in {"file", "inline"})
    => /\ ldResult[c].kind = "rejected"
       /\ (/\ ldSource[c].shape = "object"
           /\ Truthy(ldSource[c].type)
           /\ ldSource[c].type \notin {"s3", "database"}
           => ldResult[c].error = "UnsupportedSourceKind")

\* C16: a settled loadScript({type: "file", path: p}) and a settled
\* loadScript(p) have settled the same way.
C16_TaggedFileEqualsBareString ==
  \A c, d \in Calls :
    /\ ldPhase[c] = "settled" /\ ldPhase[d] = "settled"
    /\ ldSource[c].shape = "object" /\ ldSource[c].type = "file"
    /\ ldSource[d] = BareString(ldSource[c].path)
    => ldResult[c] = ldResult[d]

\* C17: loadScript of an inline source whose code is a non-empty string
\* resolves with exactly that string.
C17_InlineReturnsCodeUnchanged ==
  \A c \in Calls :
    /\ SettledOn(c, "inline")
    /\ ldSource[c].code.t = "string" /\ ldSource[c].code.s # << >>
    => ldResult[c] = LdResolved("text", ldSource[c].code.s)

C17_Witness ==
  \E c \in Calls :
    /\ SettledOn(c, "inline")
    /\ ldSource[c].code = Str(<<" ", "f">>)
    /\ ldResult[c].kind = "resolved"

\* C18: loadScript of an inline source whose code is the empty string, is
\* missing or is not a string rejects with the invalid-source failure and
\* returns nothing.
C18_InlineWithoutCodeFails ==
  \A c \in Calls :
    /\ SettledOn(c, "inline")
    /\ (ldSource[c].code.t # "string" \/ ldSource[c].code.s = << >>)
    => ldResult[c] = LdRejected("InvalidSource", {})

C18_Witness ==
  \E c, d \in Calls :
    /\ SettledOn(c, "inline") /\ ldSource[c].code = Str(<< >>)
    /\ SettledOn(d, "inline") /\ ldSource[d].code.t # "string"
    /\ ldResult[c].kind = "rejected" /\ ldResult[d].kind = "rejected"

\* C19: a file read settles once and only when the stream is over: while
\* chunks arrive the promise is pending; after end it has resolved with all
\* the chunks joined in arrival order; after an error it has rejected with
\* the path and the underlying message, returning none of the chunks read.
C19_FileReadSettlesOnceAndWhole ==
  \A c \in Calls :
    /\ ldSettles[c] <= 1
    /\ (ldPhase[c] = "reading" => ldResult[c] = LdPending /\ ldSettles[c] = 0)
    /\ (ldPhase[c] = "settled" /\ ldSource[c].shape = "string" =>
          /\ ldSettles[c] = 1
          /\ ldChunks[c] = Disk(ldSource[c].path).chunks
          /\ (ldSource[c].path = "a.js" =>
                ldResult[c] = LdResolved("text", <<"f", "n", "x">>))
          /\ (ldSource[c].path = "empty.js" =>
                ldResult[c] = LdResolved("text", << >>))
          /\ (Disk(ldSource[c].path).fails =>
                /\ ldResult[c].kind = "rejected"
                /\ ldResult[c].error = "SourceReadFailure"
                /\ {ldSource[c].path, Disk(ldSource[c].path).cause}
                     \subseteq ldResult[c].names
                /\ ldResult[c].returns = "none"
                /\ ldResult[c].content = << >>))

C19_Witness ==
  \E c, d \in Calls :
    /\ ldPhase[c] = "settled" /\ ldSource[c] = BareString("e1.js")
    /\ Len(ldChunks[c]) = 1 /\ ldResult[c].kind = "rejected"
    /\ ldPhase[d] = "settled" /\ ldSource[d] = BareString("a.js")
    /\ Len(ldChunks[d]) = 2 /\ ldResult[d].kind = "resolved"

\* the value the caller means by an option: the one written, or the
\* documented default when none was written
Meant(given, default) == IF given = NotGiven THEN default ELSE given

\* C20: every isolate is created with the memoryLimit the caller configured
\* and every entry point invocation is bounded by the executionTimeout the
\* caller configured, 128 MB and 300000 ms when the option was not given.
C20_CallerConfigInForce ==
  /\ \A r \in DOMAIN isolateMemory :
       isolateMemory[r] = Meant(options.memoryLimit, 128)
  /\ \A r \in DOMAIN applyTimeout :
       applyTimeout[r] = Meant(options.executionTimeout, 300000)


\* a step of run q that takes it to its next stage or to its end
RunStep(q) ==
  \/ InstallCapabilities(q)
  \/ ResolveSource(q)
  \/ CompileScript(q)
  \/ InvokeEntryPoint(q)
  \/ GuestReturns(q)
  \/ GuestThrows(q)

C22_DeadlineCoversWholeRun ==
  \A r \in Runs :
    phase[r] \notin {"idle", "done"} => timer[r] # "overdue"

\* the correlation ids written into the message of an Error the runner throws:
\* `Failed to load user script: ${error.message}` and the like spell out none
FailureMessageTags(e) == {}

\* C23: every host log line written for a run that has a correlation id, by
\* the logger and by the http capabilities, carries exactly that id, and so
\* does the message of the failure the run ends with.
C23_EverythingTaggedWithRunId ==
  /\ \A l \in hostLog \cup capLog :
       executionId[l.run] # 0 => l.tags = {executionId[l.run]}
  /\ \A r \in Runs :
       executionId[r] # 0 /\ raised[r] \notin {"none", "TypeError", "DataCloneError"} =>
         FailureMessageTags(raised[r]) = {executionId[r]}

\* the run call of the front end returned a payload whose success is false
PayloadReportsFailure ==
  /\ runResult.kind = "returned"
  /\ runResult.payload = "object"
  /\ ~runResult.success

\* C24: when the guest's payload has success false, the CLI has exited with
\* status 1 and the HTTP endpoint has not answered success: true.
C24_FailurePayloadFramedAsFailure ==
  /\ (frontPhase = "cliExited" /\ PayloadReportsFailure => exitCode = 1)
  /\ (frontPhase = "httpResponded" /\ PayloadReportsFailure => ~response.success)

\* C25: a command line <subdomain> <username> <password> <script> runs the
\* script named by the fourth word with the credentials made of the first
\* three.
C25_LegacyFormatRunsFourthArgument ==
  /\ frontPhase \in {"cliUsage", "cliRunning", "cliExited"}
  /\ Len(argv) = 4
  /\ \A i \in 1 .. 3 : argv[i] \in PlainWords
  /\ argv[4] = ScriptPathWord
  => runCall = RunCall(JsString(argv[4]), CredsObject(argv[1], argv[2], argv[3]))

\* C26: a command line whose first word is the JSON text of a tagged source
\* and whose second is JSON credentials runs that tagged source, not a file
\* named by the text.
C26_JsonSourceArgumentIsParsed ==
  /\ frontPhase \in {"cliUsage", "cliRunning", "cliExited"}
  /\ Len(argv) = 2
  /\ argv[1] = S3JsonWord
  /\ argv[2] = CredsJsonWord
  => runCall.made /\ runCall.source = S3SourceObject

SourceFailures == {"SourceReadFailure", "NotImplementedSource", "UnsupportedSourceKind"}

\* C27: a context exists only in runs whose source has been resolved, and a
\* run that failed to resolve its source has no context and no isolate.
C27_SourceResolvedBeforeContext ==
  \A r \in Runs :
    /\ (ctx[r] # 0 => attempts[r].resolve = 1 /\ raised[r] \notin SourceFailures)
    /\ (raised[r] \in SourceFailures => ctx[r] \notin liveIsolates)

\* C28: a run whose script threw at compile time or at top level has ended
\* with the compile failure without any attempt to invoke the entry point,
\* and an entry point was only ever invoked after a top-level execution that
\* completed.
C28_CompileFailureSkipsEntryPoint ==
  \A r \in Runs :
    /\ (topLevel[r] = "throws" =>
          /\ Finished(r)
          /\ outcome[r] = Rejected("CompileFailure")
          /\ ~invokeAttempted[r]
          /\ attempts[r].invoke = 0)
    /\ (invokeAttempted[r] => topLevel[r] \in {"definesRun", "noRun"})

C28_Witness ==
  \E r, q \in Runs :
    /\ topLevel[r] = "throws" /\ Finished(r) /\ attempts[r].compile = 1
    /\ invokeAttempted[q] /\ topLevel[q] = "definesRun"

\* C29: a finished run stays finished with the outcome it has, and a
\* capability call of a finished run that settles afterwards changes nothing
\* of the other runs nor of the process they live in.
C29_OutcomeDecidedOnce ==
  [][\A r \in Runs :
       Finished(r) =>
         /\ phase'[r] = phase[r]
         /\ outcome'[r] = outcome[r]
         /\ (capSettle'[r] # capSettle[r] =>
               /\ processDown' = processDown
               /\ \A q \in Runs \ {r} :
                    phase'[q] = phase[q] /\ outcome'[q] = outcome[q])]_vars

\* C30: no stage of a run is entered twice, the capability calls of a guest
\* never cause more host requests than there were calls, a run that is past
\* source resolution has resolved exactly once, and a run that met a failure
\* has ended.
C30_NothingIsRetried ==
  \A r \in Runs :
    /\ attempts[r].resolve <= 1
    /\ attempts[r].compile <= 1
    /\ attempts[r].invoke <= 1
    /\ attempts[r].hostRequests <= attempts[r].capCalls
    /\ (phase[r] \in {"resolved", "compiled", "topLevelLoop", "running",
                      "awaitingCap", "hung", "spinning"} => attempts[r].resolve = 1)
    /\ (raised[r] # "none" => Finished(r))

C30_Witness ==
  \E r, q \in Runs :
    /\ Finished(r) /\ raised[r] = "SourceReadFailure" /\ attempts[r].resolve = 1
    /\ attempts[q].capCalls = 2 /\ attempts[q].hostRequests = 2

Next ==
  \E r \in Runs :
    \/ StartRun(r)
    \/ InstallCapabilities(r)
    \/ ResolveSource(r)
    \/ CompileScript(r)
    \/ InvokeEntryPoint(r)
    \/ GuestMutatesCredentials(r)
    \/ GuestLogs(r)
    \/ GuestWrites(r)
    \/ GuestReads(r)
    \/ GuestProbes(r)
    \/ GuestCallsHttp(r)
    \/ HostHttpSettles(r)
    \/ GuestReturns(r)
    \/ GuestThrows(r)
    \/ GuestHangs(r)
    \/ GuestSpins(r)
    \/ DeadlineElapses(r)
    \/ DeadlinePasses(r)
    \/ TimeoutKill(r)
    \/ GraceElapses(r)

Spec == Init /\ [][Next]_vars

\* ---------------------- one guest's operations and their host-side effects
\* runRef.apply(undefined, [credentialsCopy], ...) / context.run(credentials)
InvokeGuest(r) ==
  /\ guestAt[r] = "idle"
  /\ guestAt' = [guestAt EXCEPT ![r] = "running"]
  /\ UNCHANGED <<cfgVars, runVars, credVars, guestOps, logVars, guestVars, auditVars,
                 loaderVars, optionVars, frontVars, fetchVars, issued, hostQueue, trace>>

\* logger.<level>(...) in the guest: _log.apply(null, args, ...) without
\* await posts the callback to the host and goes on; under VMRunner the
\* helper's console call happens inside the guest's call
LoggerCall(r) ==
  /\ guestAt[r] = "running"
  /\ issued[r] < MaxIssued
  /\ issued' = [issued EXCEPT ![r] = @ + 1]
  /\ IF Direct
       THEN /\ trace' = Append(trace, Effect(r, "log", issued[r] + 1))
            /\ UNCHANGED hostQueue
       ELSE /\ hostQueue' = Append(hostQueue, Task(r, "log", issued[r] + 1))
            /\ UNCHANGED trace
  /\ UNCHANGED <<cfgVars, runVars, credVars, guestOps, logVars, guestVars, auditVars,
                 loaderVars, optionVars, frontVars, fetchVars, guestAt>>

\* await httpGet(...) / httpPost(...) / sleep(...) in the guest: the wrapper
\* awaits _httpGet.apply(..., { result: { promise: true } }); a Reference to
\* undefined cannot be applied, the call throws and the guest's run ends
AwaitedCapabilityCall(r) ==
  /\ guestAt[r] = "running"
  /\ issued[r] < MaxIssued
  /\ issued' = [issued EXCEPT ![r] = @ + 1]
  /\ IF Direct
       THEN /\ trace' = Append(trace, Effect(r, "capStart", issued[r] + 1))
            /\ guestAt' = [guestAt EXCEPT ![r] = "awaiting"]
            /\ UNCHANGED hostQueue
       ELSE IF HelpersUndefined
         THEN /\ hostQueue' = Append(hostQueue, Task(r, "result", issued[r] + 1))
              /\ guestAt' = [guestAt EXCEPT ![r] = "returned"]
              /\ UNCHANGED trace
         ELSE /\ hostQueue' = Append(hostQueue, Task(r, "cap", issued[r] + 1))
              /\ guestAt' = [guestAt EXCEPT ![r] = "awaiting"]
              /\ UNCHANGED trace
  /\ UNCHANGED <<cfgVars, runVars, credVars, guestOps, logVars, guestVars, auditVars,
                 loaderVars, optionVars, frontVars, fetchVars>>

\* the host's loop serves one posted call: the logger callback prints (it
\* throws before printing when the imported logger is undefined), the
\* capability starts its host operation, the promise of runRef.apply settles
HostServesCall ==
  /\ hostQueue # << >>
  /\ LET t == Head(TaskOrder(hostQueue))
     IN /\ hostQueue' = SelectSeq(hostQueue, LAMBDA x : x # t)
        /\ CASE t.kind = "log" ->
                  /\ trace' = IF HelpersUndefined THEN trace
                               ELSE Append(trace, Effect(t.run, "log", t.n))
                  /\ UNCHANGED guestAt
             [] t.kind = "cap" ->
                  /\ trace' = Append(trace, Effect(t.run, "capStart", t.n))
                  /\ UNCHANGED guestAt
             [] t.kind = "result" ->
                  /\ trace' = Append(trace, Effect(t.run, "result", t.n))
                  /\ guestAt' = [guestAt EXCEPT ![t.run] = "delivered"]
  /\ UNCHANGED <<cfgVars, runVars, credVars, guestOps, logVars, guestVars, auditVars,
                 loaderVars, optionVars, frontVars, fetchVars, issued>>

\* the host operation of the capability the guest awaits settles and the
\* guest goes on after its await
HostCapabilitySettles(r) ==
  /\ guestAt[r] = "awaiting"
  /\ Effect(r, "capStart", issued[r]) \in Range(trace)
  /\ trace' = Append(trace, Effect(r, "capSettle", issued[r]))
  /\ guestAt' = [guestAt EXCEPT ![r] = "running"]
  /\ UNCHANGED <<cfgVars, runVars, credVars, guestOps, logVars, guestVars, auditVars,
                 loaderVars, optionVars, frontVars, fetchVars, issued, hostQueue>>

\* the guest's run function returns: its result reaches the caller through
\* the promise of runRef.apply, under VMRunner through await context.run
GuestReturn(r) ==
  /\ guestAt[r] = "running"
  /\ IF Direct
       THEN /\ trace' = Append(trace, Effect(r, "result", issued[r] + 1))
            /\ guestAt' = [guestAt EXCEPT ![r] = "delivered"]
            /\ UNCHANGED hostQueue
       ELSE /\ hostQueue' = Append(hostQueue, Task(r, "result", issued[r] + 1))
            /\ guestAt' = [guestAt EXCEPT ![r] = "returned"]
            /\ UNCHANGED trace
  /\ UNCHANGED <<cfgVars, runVars, credVars, guestOps, logVars, guestVars, auditVars,
                 loaderVars, optionVars, frontVars, fetchVars, issued>>

NextOrder ==
  \/ HostServesCall
  \/ \E r \in Runs :
       \/ InvokeGuest(r)
       \/ LoggerCall(r)
       \/ AwaitedCapabilityCall(r)
       \/ HostCapabilitySettles(r)
       \/ GuestReturn(r)

InitOrder ==
  /\ engine \in GuestEngines
  /\ helpersExport \in HelperExports
  /\ (engine # "ivmCfg" => helpersExport = "class")
  /\ RunsIdle
  /\ LoaderIdle
  /\ OptionsIdle
  /\ FrontIdle
  /\ OrderIdle
  /\ FetchIdle

SpecOrder == InitOrder /\ [][NextOrder]_vars

\* positions of the trace
Positions == 1 .. Len(trace)

\* effects by which the host begins something the guest asked for
Begins == {"log", "capStart", "result"}

C32_ConsoleRestoredAfterCallback ==
  \A s \in Streams : consolePatch[s] = << >>

\* ------------------------------------------- fetchAllDevices, step by step
\* fetchAllDevices(subdomain, token) is called: allDevices = [], page = 0,
\* hasMorePages = true
FetchAllDevices ==
  /\ fetchPhase = "idle"
  /\ fetchScript' \in FetchScripts
  /\ fetchPhase' = "requesting"
  /\ page' = 0
  /\ allDevices' = 0
  /\ UNCHANGED <<cfgVars, runVars, credVars, guestOps, logVars, guestVars, auditVars,
                 loaderVars, optionVars, frontVars, orderVars, fetchResponse>>

\* top of the loop body: await httpGet(url of the current page)
RequestPage ==
  /\ fetchPhase = "requesting"
  /\ fetchPhase' = "awaitingGet"
  /\ fetchResponse' = NoPageResponse
  /\ UNCHANGED <<cfgVars, runVars, credVars, guestOps, logVars, guestVars, auditVars,
                 loaderVars, optionVars, frontVars, orderVars, fetchScript, page,
                 allDevices>>

\* the request settles with whatever the server answered
PageSettles ==
  /\ fetchPhase = "awaitingGet"
  /\ fetchResponse' \in PageResponses
  /\ fetchPhase' = "settled"
  /\ UNCHANGED <<cfgVars, runVars, credVars, guestOps, logVars, guestVars, auditVars,
                 loaderVars, optionVars, frontVars, orderVars, fetchScript, page,
                 allDevices>>

\* rest of the loop body: the format check, push, hasMorePages, page++,
\* and the return of allDevices when the loop condition fails
ProcessPage ==
  /\ fetchPhase = "settled"
  /\ IF PageThrows(fetchResponse)
       THEN /\ fetchPhase' = "threw"
            /\ UNCHANGED <<page, allDevices>>
       ELSE /\ allDevices' = Pushed(allDevices, fetchResponse)
            /\ page' = NextPage(page)
            /\ fetchPhase' = IF HasMorePages(Pushed(allDevices, fetchResponse), fetchResponse)
                                THEN "sleeping" ELSE "returned"
  /\ UNCHANGED <<cfgVars, runVars, credVars, guestOps, logVars, guestVars, auditVars,
                 loaderVars, optionVars, frontVars, orderVars, fetchScript, fetchResponse>>

\* await sleep(100) is over, the loop goes round
SleepElapses ==
  /\ fetchPhase = "sleeping"
  /\ fetchPhase' = "requesting"
  /\ UNCHANGED <<cfgVars, runVars, credVars, guestOps, logVars, guestVars, auditVars,
                 loaderVars, optionVars, frontVars, orderVars, fetchScript, page,
                 allDevices, fetchResponse>>

NextFetch ==
  \/ FetchAllDevices
  \/ RequestPage
  \/ PageSettles
  \/ ProcessPage
  \/ SleepElapses

\* the loop is the same under every engine
InitFetch ==
  /\ engine = "ivmCfg"
  /\ helpersExport = "class"
  /\ RunsIdle
  /\ LoaderIdle
  /\ OptionsIdle
  /\ FrontIdle
  /\ OrderIdle
  /\ FetchIdle

\* every request is answered and the guest is never starved: each step of
\* the loop that can be taken is taken
SpecFetch == InitFetch /\ [][NextFetch]_vars /\ WF_vars(NextFetch)

\* C33: fetchAllDevices comes to an end, by returning allDevices or by
\* throwing, whatever the responses are.
C33_FetchLoopTerminates ==
  <>(fetchPhase \in {"returned", "threw"})
====
